---- MODULE Spec2Model ----
(***************************************************************************)
(* A model of tools/autoroller/roll_webrtc_in_chromium.py: the AutoRoller  *)
(* that rolls the WebRTC and libjingle pins of a Chromium checkout.        *)
(*                                                                         *)
(* The state is the checkout (branches, active branch, committed trees,    *)
(* working tree), the review server, the upstream tips, and the position   *)
(* of the running invocation of main().  Every external command the script *)
(* runs through _RunCommand is one step; the exit status of the command is *)
(* chosen by the environment among the statuses git allows in that state.  *)
(***************************************************************************)
EXTENDS Integers, Sequences, FiniteSets, TLC

(* ------------------------------ bounds -------------------------------- *)
\* Upstream commit identifiers are 1..MaxId.
MaxId == 2
\* Number of invocations of the tool on the same checkout.
MaxRuns == 2

(* --------------------------- program constants ------------------------ *)
ROLL_BRANCH_NAME == "special_webrtc_roll_branch"
WEBRTC_PATH == "third_party/webrtc"
LIBJINGLE_PATH == "third_party/libjingle/source/talk"
LIBJINGLE_README == "third_party/libjingle/README.chromium"

DepPaths == {WEBRTC_PATH, LIBJINGLE_PATH}
Ids == 1..MaxId
AllBranches == {"feature", "master", ROLL_BRANCH_NAME}
\* `git branch` lists the local branches in this (alphabetical) order.
BranchOrder == <<"feature", "master", ROLL_BRANCH_NAME>>

\* The exit status of a command that the environment makes fail (no network,
\* no disk space); a command git refuses ends with git's own status.
FailStatuses == {1}

\* The upstream repository of a dependency, as written in DEPS.
RepoUrl(path) ==
    IF path = WEBRTC_PATH THEN "https://chromium.googlesource.com/external/webrtc/trunk/webrtc.git"
    ELSE "https://chromium.googlesource.com/external/webrtc/trunk/talk.git"

\* The commit position recorded in the message of upstream commit h.
CommitPosition(h) == 9000 + h

VARIABLES
    \* the checkout
    branches,      \* set of local branch names
    active,        \* the checked-out branch
    head,          \* branch name -> committed tree (NoTree when absent)
    wt,            \* working tree: [deps, readme, other]
    untracked,     \* an untracked file lies in the working tree
    staged,        \* the working-tree changes are staged (git add --update)
    \* the review server and the branch's review association
    reviews,       \* sequence of review states, indexed by issue number
    branchIssue,   \* issue associated with the roll branch, 0 when none
    \* upstream
    latest,        \* dependency path -> tip commit of origin
    \* the running invocation
    pc, args, how, rc, log,
    deps,          \* the parsed DEPS dictionary (local of PrepareRoll)
    res,           \* index of the resolution in progress (1..4)
    info,          \* the four CommitInfo locals of PrepareRoll
    description,   \* local of PrepareRoll
    cl_info,       \* local of PrepareRoll
    active_branch, \* local of Abort
    hadRoll,       \* ROLL_BRANCH_NAME in branches, as Abort computed it
    start,         \* the checkout as it was when the invocation started
    runNo,         \* number of invocations started
    prev,          \* how the previous invocation ended
    other          \* the invocation that is not running its command now

world == <<branches, active, head, wt, untracked, staged, reviews, branchIssue>>
locals == <<deps, res, info, description, cl_info, active_branch, hadRoll>>
run == <<pc, args, how, rc, log, start, runNo, prev>>
vars == <<world, latest, locals, run, other>>

(* ------------------------------ data ---------------------------------- *)
\* CommitInfo = namedtuple(svn_revision, git_commit, git_repo_url)
CommitInfo(svn_revision, git_commit, git_repo_url) ==
    [svn_revision |-> svn_revision, git_commit |-> git_commit,
     git_repo_url |-> git_repo_url]
\* A CommitInfo local that has not been assigned yet.
NoInfo == CommitInfo(-1, -1, <<>>)
\* CLInfo = namedtuple(issue, url, rietveld_server)
CLInfo(issue, url, rietveld_server) ==
    [issue |-> issue, url |-> url, rietveld_server |-> rietveld_server]
NoCLInfo == CLInfo(-1, <<>>, <<>>)

Tree(d, r, o) == [deps |-> d, readme |-> r, other |-> o]
NoTree == Tree([p \in DepPaths |-> 0], 0, 0)
Files == {"deps", "readme", "other"}

ResolutionOrder_LatestFirst ==
    <<"webrtc_latest", "libjingle_latest", "webrtc_current", "libjingle_current">>
ResolutionOrder ==
    <<"webrtc_current", "libjingle_current", "webrtc_latest", "libjingle_latest">>
ResolutionPath(i) == IF i \in {1, 3} THEN WEBRTC_PATH ELSE LIBJINGLE_PATH
NoInfos == [k \in {ResolutionOrder[i] : i \in 1..4} |-> NoInfo]

NoArgs == [abort |-> FALSE, dry_run |-> FALSE, ignore_checks |-> FALSE,
           no_commit |-> FALSE, checkout_ok |-> TRUE, platform_ok |-> TRUE]
\* The command lines that behave differently: a flag is left out where the
\* code never reads it (a rejected invocation, or --abort, reads no other;
\* `not self._dry_run and not self._no_commit` reads no_commit only when
\* dry_run is off).
ArgSets ==
    {[NoArgs EXCEPT !.platform_ok = FALSE], [NoArgs EXCEPT !.checkout_ok = FALSE],
     [NoArgs EXCEPT !.abort = TRUE]}
    \cup {a \in {[NoArgs EXCEPT !.dry_run = d, !.ignore_checks = i, !.no_commit = n] :
                    d \in BOOLEAN, i \in BOOLEAN, n \in BOOLEAN} :
             ~(a.dry_run /\ a.no_commit)}

Snapshot == [branches |-> branches, active |-> active, head |-> head,
             wt |-> wt, untracked |-> untracked, staged |-> staged,
             reviews |-> reviews, branchIssue |-> branchIssue]
NoPrev == [kind |-> "none", how |-> "none", noop |-> FALSE]
\* What is told apart of an invocation that ended.
Outcome(a, h, noop) ==
    IF ~(a.platform_ok /\ a.checkout_ok) THEN NoPrev
    ELSE IF a.abort
    THEN [kind |-> "abort", how |-> h, noop |-> FALSE]
    ELSE [kind |-> "roll", how |-> h, noop |-> noop]

\* What an invocation of the tool holds of its own: its position, its command
\* line, its result and its locals.
Context ==
    [pc |-> pc, args |-> args, how |-> how, rc |-> rc, log |-> log,
     deps |-> deps, res |-> res, info |-> info, description |-> description,
     cl_info |-> cl_info, active_branch |-> active_branch, hadRoll |-> hadRoll,
     start |-> start]
\* An invocation that has not started.
NotStarted ==
    [pc |-> "idle", args |-> NoArgs, how |-> "none", rc |-> 0, log |-> <<>>,
     deps |-> <<>>, res |-> 0, info |-> NoInfos, description |-> <<>>,
     cl_info |-> NoCLInfo, active_branch |-> "", hadRoll |-> FALSE,
     start |-> [branches |-> {}, active |-> "", head |-> [b \in AllBranches |-> NoTree],
                wt |-> NoTree, untracked |-> FALSE, staged |-> FALSE,
                reviews |-> <<>>, branchIssue |-> 0]]

(* ------------------------ text of external replies -------------------- *)
\* A line of `git log --pretty=full -1` output.
Line(kind, val) == [kind |-> kind, val |-> val]

\* What `git log <h> --pretty=full -1` can print for commit h.  The commit
\* message of "quoted" also quotes the position line of the parent commit.
LogShapes == {"full", "quoted", "no_position", "no_commit"}
GitLogOutput(h, shape) ==
    CASE shape = "full" ->
           <<Line("commit", h), Line("Author", 0), Line("text", 0),
             Line("Cr-Original-Commit-Position", CommitPosition(h))>>
      [] shape = "quoted" ->
           <<Line("commit", h), Line("Author", 0),
             Line("Cr-Original-Commit-Position", CommitPosition(h) - 1),
             Line("text", 0),
             Line("Cr-Original-Commit-Position", CommitPosition(h))>>
      [] shape = "no_position" ->
           <<Line("commit", h), Line("Author", 0), Line("text", 0)>>
      [] OTHER ->
           <<Line("Author", 0), Line("text", 0),
             Line("Cr-Original-Commit-Position", CommitPosition(h))>>

Found(v) == [ok |-> TRUE, val |-> v]
NotFound == [ok |-> FALSE, val |-> -1]

\* GIT_SVN_ID_RE.match(line.strip())
GIT_SVN_ID_RE(line) == line.kind = "Cr-Original-Commit-Position"

\* for line in reversed(description.splitlines()): first match wins.
RECURSIVE SvnScan(_, _)
SvnScan(text, i) ==
    IF i = 0 THEN NotFound
    ELSE IF GIT_SVN_ID_RE(text[i]) THEN Found(text[i].val)
    ELSE SvnScan(text, i - 1)
ParseSvnRevisionFromGitDescription_DefaultsToZero(text) ==
    IF SvnScan(text, Len(text)).ok THEN SvnScan(text, Len(text)) ELSE Found(0)
ParseSvnRevisionFromGitDescription(text) == SvnScan(text, Len(text))

\* for line in description.splitlines(): first 'commit ' line wins.
RECURSIVE CommitScan(_, _)
CommitScan(text, i) ==
    IF i > Len(text) THEN NotFound
    ELSE IF text[i].kind = "commit" THEN Found(text[i].val)
    ELSE CommitScan(text, i + 1)
ParseGitCommitFromDescription(text) == CommitScan(text, 1)

\* A DEPS entry '<url>@<hash>' as its three pieces of text.
Piece(c, s, n) == [c |-> c, s |-> s, n |-> n]
DepsEntry(path, h) == <<Piece("url", RepoUrl(path), 0), Piece("@", "@", 0),
                        Piece("hash", "", h)>>
\* _ParseDepsFile: the 'deps' dictionary of the DEPS file in the working tree.
ParseDepsFile(tree) ==
    [p \in DepPaths |-> DepsEntry(p, tree.deps[p])]

\* str.find('@'): 0-based index of the first '@', -1 when there is none.
RECURSIVE FindAt(_, _)
FindAt(entry, i) ==
    IF i > Len(entry) THEN -1
    ELSE IF entry[i].c = "@" THEN i - 1
    ELSE FindAt(entry, i + 1)
\* entry[:n] and entry[n:] of Python, n may be negative.
SliceTo(s, n) == IF n < 0 THEN SubSeq(s, 1, Len(s) + n) ELSE SubSeq(s, 1, n)
SliceFrom(s, n) == IF n < 0 THEN SubSeq(s, Len(s) + n + 1, Len(s))
                   ELSE SubSeq(s, n + 1, Len(s))

\* The reply of `git cl issue`: 'Issue number: <number> (<url>)'.  number is
\* -1 when the text there is not digits ('None'); a URL is its scheme and
\* the '/'-separated pieces after '://'.
Url(scheme, segs) == [scheme |-> scheme, segs |-> segs]
ClReply(number, paren, url) == [number |-> number, paren |-> paren, url |-> url]
ClShapes == {"ok", "none", "no_url", "bad_url"}
GitClIssueOutput(issue, shape) ==
    CASE shape = "ok" ->
           ClReply(issue, TRUE, Url("https", <<"codereview.chromium.org", "issue">>))
      [] shape = "none" -> ClReply(-1, TRUE, Url("", <<"None">>))
      [] shape = "no_url" -> ClReply(issue, FALSE, Url("", <<>>))
      [] OTHER -> ClReply(issue, TRUE, Url("https", <<"codereview.chromium.org">>))

\* CL_ISSUE_RE = '^Issue number: ([0-9]+) \((.*)\)$'
CL_ISSUE_RE(reply) == reply.number >= 0 /\ reply.paren
\* RIETVELD_URL_RE = '^https?://(.*)/(.*)': group 1 is greedy, it ends at the
\* last '/'.
RIETVELD_URL_RE(url) == url.scheme \in {"http", "https"} /\ Len(url.segs) >= 2
RietveldServer(url) == SubSeq(url.segs, 1, Len(url.segs) - 1)

\* _GetCLInfo's parse of the reply of `git cl issue`.
ParseCLInfo_NoExit(reply) ==
    [ok |-> TRUE,
     val |-> IF CL_ISSUE_RE(reply) /\ RIETVELD_URL_RE(reply.url)
             THEN CLInfo(reply.number, reply.url, RietveldServer(reply.url))
             ELSE NoCLInfo]
ParseCLInfo(reply) ==
    IF ~CL_ISSUE_RE(reply) THEN [ok |-> FALSE, val |-> NoCLInfo]
    ELSE IF ~RIETVELD_URL_RE(reply.url) THEN [ok |-> FALSE, val |-> NoCLInfo]
    ELSE [ok |-> TRUE,
          val |-> CLInfo(reply.number, reply.url, RietveldServer(reply.url))]

(* --------------------------- description ------------------------------ *)
\* hash[0:7]: the first seven characters of a 40-character identifier.  Two
\* identifiers may share them: here 1 and 2 do, 3 and 4 do, and so on.
First7(h) == (h + 1) \div 2
GetChangeLogURL(git_repo_url, current_hash, new_hash) ==
    [repo |-> git_repo_url, from |-> First7(current_hash), to |-> First7(new_hash)]

DLine(kind, name, old, new, url) ==
    [kind |-> kind, name |-> name, old |-> old, new |-> new, url |-> url]
NoUrl == GetChangeLogURL(<<>>, 0, 0)
Section_UrlOfNew(name, cur, new) ==
    <<DLine("section", name, cur.svn_revision, new.svn_revision, NoUrl),
      DLine("changes", name, 0, 0,
            GetChangeLogURL(new.git_repo_url, cur.git_commit, new.git_commit))>>
Section(name, cur, new) ==
    <<DLine("section", name, cur.svn_revision, new.svn_revision, NoUrl),
      DLine("changes", name, 0, 0,
            GetChangeLogURL(cur.git_repo_url, cur.git_commit, new.git_commit))>>

\* _GenerateCLDescription: the title 'Roll <a>, <b>', one section per
\* dependency whose git_commit differs, and the 'TBR=' line.
GenerateCLDescription(webrtc_current, libjingle_current, webrtc_new, libjingle_new) ==
    LET w == webrtc_current.git_commit /= webrtc_new.git_commit
        l == libjingle_current.git_commit /= libjingle_new.git_commit
        title == (IF w THEN <<DLine("title", "WebRTC", webrtc_current.svn_revision,
                                    webrtc_new.svn_revision, NoUrl)>> ELSE <<>>)
                 \o (IF l THEN <<DLine("title", "Libjingle",
                                       libjingle_current.svn_revision,
                                       libjingle_new.svn_revision, NoUrl)>> ELSE <<>>)
    IN  title
        \o (IF w THEN Section("WebRTC", webrtc_current, webrtc_new) ELSE <<>>)
        \o (IF l THEN Section("Libjingle", libjingle_current, libjingle_new) ELSE <<>>)
        \o <<DLine("TBR=", "", 0, 0, NoUrl)>>

(* ------------------------------- git ---------------------------------- *)
\* _IsTreeClean: `git status --porcelain` prints no line, neither for a
\* changed tracked file nor for an untracked one.
IsTreeClean_Inverted == ~(wt = head[active] /\ ~untracked)
IsTreeClean == wt = head[active] /\ ~untracked
\* `git branch -D b` refuses a branch that is absent or checked out.
CanDeleteBranch(b) == b \in branches /\ b /= active
\* `git checkout -b b` refuses a name that exists.
CanCreateBranch_Forced(b) == TRUE
CanCreateBranch(b) == b \notin branches
\* `git checkout b` keeps local changes and refuses when a changed file
\* differs between the two branches.
CanCheckout(b) ==
    /\ b \in branches
    /\ \A f \in Files : wt[f] = head[active][f] \/ head[b][f] = head[active][f]
Carried(b, f) == IF wt[f] = head[active][f] THEN head[b][f] ELSE wt[f]
CheckoutTree(b) == Tree(Carried(b, "deps"), Carried(b, "readme"), Carried(b, "other"))
\* The output of `git branch`: one line per branch, the active one starred.
GitBranchOutput ==
    LET present == SelectSeq(BranchOrder, LAMBDA b : b \in branches)
    IN  [i \in 1..Len(present) |-> [star |-> present[i] = active, name |-> present[i]]]

(* --------------------------- _RunCommand ------------------------------ *)
\* The statuses a command can end with: when git can carry it out, 0 or a
\* failure of the environment; otherwise the status git refuses with.
Outcomes(possible, refusal) == IF possible THEN {0} \cup FailStatuses ELSE {refusal}
\* if not ignore_exit_code and p.returncode != 0: sys.exit(p.returncode)
RunCommandExits_IgnoresFlag(returncode, ignore_exit_code) == returncode /= 0
RunCommandExits(returncode, ignore_exit_code) ==
    ~ignore_exit_code /\ returncode /= 0
Event(cmd, status) == [cmd |-> cmd, status |-> status]
Ran(cmd, status) == log' = Append(log, Event(cmd, status))
Exit(code) == pc' = "done" /\ how' = "exited" /\ rc' = code
Return(code) == pc' = "done" /\ how' = "returned" /\ rc' = code
Goto(label) == pc' = label /\ UNCHANGED <<how, rc>>
frame == <<args, start, runNo, prev, latest, other>>

(* ------------------------------ Init ---------------------------------- *)
\* A Chromium checkout on which the tool has not run yet: master is checked
\* out, there is one other branch and no roll branch, every branch has the
\* same DEPS, which pins both dependencies at the upstream tip (commit 1), and
\* the README of libjingle names the revision of that commit.  The tree is
\* clean, or a tracked file is modified, or an untracked file lies in it.
Init ==
    /\ branches = {"master", "feature"}
    /\ active = "master"
    /\ head = [b \in AllBranches |->
                 IF b \in branches
                 THEN Tree([p \in DepPaths |-> 1], CommitPosition(1), 0)
                 ELSE NoTree]
    /\ \E m \in {0, 1} :
         /\ wt = Tree([p \in DepPaths |-> 1], CommitPosition(1), m)
         /\ untracked \in IF m = 1 THEN {FALSE} ELSE BOOLEAN
    /\ staged = FALSE
    /\ reviews = <<>>
    /\ branchIssue = 0
    /\ latest = [p \in DepPaths |-> 1]
    /\ pc = "idle" /\ args = NoArgs /\ how = "none" /\ rc = 0 /\ log = <<>>
    /\ deps = <<>> /\ res = 0 /\ info = NoInfos
    /\ description = <<>> /\ cl_info = NoCLInfo
    /\ active_branch = "" /\ hadRoll = FALSE
    /\ start = Snapshot
    /\ runNo = 0
    /\ prev = NoPrev
    /\ other = NotStarted

(* -------------------------------- main -------------------------------- *)
\* main(): the platform test, the checkout test, then Abort or PrepareRoll.
Main ==
    /\ pc = "idle"
    /\ runNo < MaxRuns
    /\ \E a \in ArgSets :
         /\ args' = a
         /\ IF ~a.platform_ok THEN Return(-1)
            ELSE IF ~a.checkout_ok THEN Return(-2)
            ELSE /\ how' = "running"
                 /\ rc' = 0
                 /\ pc' = IF a.abort THEN "a_branch"
                          ELSE "p_checks"
    /\ runNo' = runNo + 1
    /\ start' = Snapshot
    /\ log' = <<>>
    /\ UNCHANGED <<world, latest, locals, prev, other>>


(* ----------------------------- PrepareRoll ---------------------------- *)
\* if not self._ignore_checks:
ChecksSkipped(a) == FALSE
ChecksEnabled_Always(a) == TRUE
ChecksEnabled(a) == ~a.ignore_checks

\* PrepareRoll's entry: with the checks, the branch test comes first.
PrepareRoll_Checks ==
    /\ pc = "p_checks"
    /\ Goto(IF ChecksEnabled(args) THEN "p_rev_parse" ELSE "p_delete_stale")
    /\ UNCHANGED <<world, locals, frame, log>>

\* _GetCurrentBranchName() != 'master': git rev-parse --abbrev-ref HEAD
PrepareRoll_CurrentBranch ==
    /\ pc = "p_rev_parse"
    /\ \E st \in Outcomes(TRUE, 1) :
         /\ Ran("git rev-parse", st)
         /\ IF RunCommandExits(st, FALSE) THEN Exit(st)
            ELSE IF active /= "master" THEN Return(-1)
            ELSE Goto("p_status")
    /\ UNCHANGED <<world, locals, frame>>

\* not self._IsTreeClean(): git status --porcelain
PrepareRoll_TreeClean ==
    /\ pc = "p_status"
    /\ \E st \in Outcomes(TRUE, 1) :
         /\ Ran("git status", st)
         /\ IF RunCommandExits(st, FALSE) THEN Exit(st)
            ELSE IF ~IsTreeClean THEN Return(-1)
            ELSE Goto("p_delete_stale")
    /\ UNCHANGED <<world, locals, frame>>

\* git branch -D special_webrtc_roll_branch, ignore_exit_code=True
PrepareRoll_DeleteStale_ClosesReview ==
    /\ pc = "p_delete_stale"
    /\ \E st \in Outcomes(CanDeleteBranch(ROLL_BRANCH_NAME), 1) :
         /\ Ran("git branch -D (stale)", st)
         /\ IF RunCommandExits(st, TRUE) THEN Exit(st) /\ UNCHANGED world
            ELSE /\ Goto(IF ChecksEnabled(args) THEN "p_pull" ELSE "p_checkout_b")
                 /\ IF st = 0
                    THEN /\ branches' = branches \ {ROLL_BRANCH_NAME}
                         /\ head' = [head EXCEPT ![ROLL_BRANCH_NAME] = NoTree]
                         /\ branchIssue' = 0
                         /\ reviews' = [i \in 1..Len(reviews) |->
                                          IF i = branchIssue THEN "closed" ELSE reviews[i]]
                         /\ UNCHANGED <<active, wt, untracked, staged>>
                    ELSE UNCHANGED world
    /\ UNCHANGED <<locals, frame>>
PrepareRoll_DeleteStale ==
    /\ pc = "p_delete_stale"
    /\ \E st \in Outcomes(CanDeleteBranch(ROLL_BRANCH_NAME), 1) :
         /\ Ran("git branch -D (stale)", st)
         /\ IF RunCommandExits(st, TRUE) THEN Exit(st) /\ UNCHANGED world
            ELSE /\ Goto(IF ChecksEnabled(args) THEN "p_pull" ELSE "p_checkout_b")
                 /\ IF st = 0
                    THEN /\ branches' = branches \ {ROLL_BRANCH_NAME}
                         /\ head' = [head EXCEPT ![ROLL_BRANCH_NAME] = NoTree]
                         /\ branchIssue' = 0
                         /\ UNCHANGED <<active, wt, untracked, staged, reviews>>
                    ELSE UNCHANGED world
    /\ UNCHANGED <<locals, frame>>

\* git pull (only with the checks)
PrepareRoll_Pull ==
    /\ pc = "p_pull"
    /\ \E st \in Outcomes(TRUE, 1) :
         /\ Ran("git pull", st)
         /\ IF RunCommandExits(st, FALSE) THEN Exit(st) ELSE Goto("p_checkout_b")
    /\ UNCHANGED <<world, locals, frame>>

\* git checkout -b special_webrtc_roll_branch, then deps = _ParseDepsFile(DEPS)
PrepareRoll_CreateBranch ==
    /\ pc = "p_checkout_b"
    /\ \E st \in Outcomes(CanCreateBranch(ROLL_BRANCH_NAME), 128) :
         /\ Ran("git checkout -b", st)
         /\ IF RunCommandExits(st, FALSE)
            THEN Exit(st) /\ UNCHANGED <<world, locals>>
            ELSE /\ Goto("p_resolve")
                 /\ branches' = branches \cup {ROLL_BRANCH_NAME}
                 /\ active' = ROLL_BRANCH_NAME
                 /\ head' = [head EXCEPT ![ROLL_BRANCH_NAME] = head[active]]
                 /\ deps' = ParseDepsFile(wt)
                 /\ res' = 1
                 /\ UNCHANGED <<wt, untracked, staged, reviews, branchIssue, info,
                                description, cl_info, active_branch, hadRoll>>
    /\ UNCHANGED frame

\* _GetDepsCommitInfo: entry.find('@'), the URL before it, the hash after it.
DepsUrl(entry) == SliceTo(entry, FindAt(entry, 1))
DepsHash(entry) == SliceFrom(entry, FindAt(entry, 1) + 1)
\* The commit a revision argument of `git log` names, 0 when it names none.
RevParse(git_hash) ==
    IF Len(git_hash) = 1 /\ git_hash[1].c = "hash" THEN git_hash[1].n ELSE 0
\* revision_range = git_hash or 'origin', for the resolution in progress.
RevisionRange(i) ==
    IF i <= 2 THEN RevParse(DepsHash(deps[ResolutionPath(i)]))
    ELSE latest[ResolutionPath(i)]
ResolutionUrl(i) == IF i <= 2 THEN DepsUrl(deps[ResolutionPath(i)]) ELSE <<>>

\* _GetCommitInfo: git fetch origin, then git log <range> --pretty=full -1,
\* then CommitInfo(_ParseSvnRevision...(ret), _ParseGitCommit...(ret), url).
\* The resolutions run in the order of the four calls in PrepareRoll.
GetCommitInfo ==
    /\ pc = "p_resolve"
    /\ \E fetch \in Outcomes(TRUE, 1) :
         IF RunCommandExits(fetch, FALSE)
         THEN /\ Ran("git fetch origin", fetch)
              /\ Exit(fetch) /\ UNCHANGED <<res, info>>
         ELSE \E st \in Outcomes(RevisionRange(res) /= 0, 128) :
           LET both == log \o <<Event("git fetch origin", fetch), Event("git log", st)>>
           IN  IF RunCommandExits(st, FALSE)
               THEN log' = both /\ Exit(st) /\ UNCHANGED <<res, info>>
               ELSE \E shape \in LogShapes :
                 LET ret == GitLogOutput(RevisionRange(res), shape)
                     svn == ParseSvnRevisionFromGitDescription(ret)
                     commit == ParseGitCommitFromDescription(ret)
                 IN  IF ~svn.ok
                     THEN log' = both /\ Exit(-1) /\ UNCHANGED <<res, info>>
                     ELSE IF ~commit.ok
                     THEN log' = both /\ Exit(-1) /\ UNCHANGED <<res, info>>
                     ELSE /\ log' = Append(both, Event(ResolutionOrder[res], 0))
                          /\ info' = [info EXCEPT ![ResolutionOrder[res]] =
                                        CommitInfo(svn.val, commit.val, ResolutionUrl(res))]
                          /\ IF res < 4
                             THEN res' = res + 1 /\ Goto("p_resolve")
                             ELSE res' = res /\ Goto("p_roll_dep_webrtc")
    /\ UNCHANGED <<world, deps, description, cl_info, active_branch, hadRoll, frame>>

\* roll-dep <path> <hash>: rewrites the pin of <path> in the DEPS file.
SetPin(path, new_hash) == [wt EXCEPT !.deps[path] = new_hash]

\* roll-dep third_party/webrtc webrtc_latest.git_commit
PrepareRoll_RollWebrtc ==
    /\ pc = "p_roll_dep_webrtc"
    /\ \E st \in Outcomes(TRUE, 1) :
         /\ Ran("roll-dep webrtc", st)
         /\ IF RunCommandExits(st, FALSE) THEN Exit(st) /\ UNCHANGED wt
            ELSE /\ Goto("p_roll_dep_libjingle")
                 /\ wt' = SetPin(WEBRTC_PATH, info["webrtc_latest"].git_commit)
    /\ UNCHANGED <<branches, active, head, untracked, staged, reviews, branchIssue,
                   locals, frame>>

\* roll-dep third_party/libjingle/source/talk libjingle_latest.git_commit
PrepareRoll_RollLibjingle_ThenReadme ==
    /\ pc = "p_roll_dep_libjingle"
    /\ \E st \in Outcomes(TRUE, 1) :
         /\ Ran("roll-dep libjingle", st)
         /\ IF RunCommandExits(st, FALSE) THEN Exit(st) /\ UNCHANGED wt
            ELSE /\ Goto("p_status_after")
                 /\ wt' = [SetPin(LIBJINGLE_PATH, info["libjingle_latest"].git_commit)
                             EXCEPT !.readme = info["libjingle_latest"].svn_revision]
    /\ UNCHANGED <<branches, active, head, untracked, staged, reviews, branchIssue,
                   locals, frame>>
PrepareRoll_RollLibjingle ==
    /\ pc = "p_roll_dep_libjingle"
    /\ \E st \in Outcomes(TRUE, 1) :
         /\ Ran("roll-dep libjingle", st)
         /\ IF RunCommandExits(st, FALSE) THEN Exit(st) /\ UNCHANGED wt
            ELSE /\ Goto("p_status_after")
                 /\ wt' = SetPin(LIBJINGLE_PATH, info["libjingle_latest"].git_commit)
    /\ UNCHANGED <<branches, active, head, untracked, staged, reviews, branchIssue,
                   locals, frame>>

\* _UpdateReadmeFile: the 'Revision: <n>' line of the README is rewritten.
UpdateReadmeFile(new_revision) == [wt EXCEPT !.readme = new_revision]

\* if self._IsTreeClean(): ... else: _UpdateReadmeFile, _GenerateCLDescription
PrepareRoll_NoOpTest ==
    /\ pc = "p_status_after"
    /\ \E st \in Outcomes(TRUE, 1) :
         IF RunCommandExits(st, FALSE)
         THEN /\ Ran("git status", st)
              /\ Exit(st)
              /\ UNCHANGED <<wt, description>>
         ELSE IF IsTreeClean
         THEN /\ Ran("git status", st)
              /\ Goto("p_delete_roll")
              /\ UNCHANGED <<wt, description>>
         ELSE /\ log' = log \o <<Event("git status", st), Event("update readme", 0),
                                 Event("generate description", 0)>>
              /\ wt' = UpdateReadmeFile(info["libjingle_latest"].svn_revision)
              /\ description' = GenerateCLDescription(
                     info["webrtc_current"], info["libjingle_current"],
                     info["webrtc_latest"], info["libjingle_latest"])
              /\ Goto("p_add")
    /\ UNCHANGED <<branches, active, head, untracked, staged, reviews, branchIssue,
                   deps, res, info, cl_info, active_branch, hadRoll, frame>>

\* git add --update .
PrepareRoll_Add ==
    /\ pc = "p_add"
    /\ \E st \in Outcomes(TRUE, 1) :
         /\ Ran("git add", st)
         /\ IF RunCommandExits(st, FALSE) THEN Exit(st) /\ UNCHANGED staged
            ELSE Goto("p_commit") /\ staged' = TRUE
    /\ UNCHANGED <<branches, active, head, wt, untracked, reviews, branchIssue,
                   locals, frame>>

\* git commit -m description: refuses when nothing is staged.
PrepareRoll_Commit ==
    /\ pc = "p_commit"
    /\ \E st \in Outcomes(staged /\ wt /= head[active], 1) :
         /\ Ran("git commit", st)
         /\ IF RunCommandExits(st, FALSE) THEN Exit(st) /\ UNCHANGED <<head, staged>>
            ELSE /\ Goto("p_upload")
                 /\ head' = [head EXCEPT ![active] = wt]
                 /\ staged' = FALSE
    /\ UNCHANGED <<branches, active, wt, untracked, reviews, branchIssue,
                   locals, frame>>

\* git cl upload -m description: creates the review of the branch.
PrepareRoll_Upload ==
    /\ pc = "p_upload"
    /\ \E st \in Outcomes(TRUE, 1) :
         /\ Ran("git cl upload", st)
         /\ IF RunCommandExits(st, FALSE)
            THEN Exit(st) /\ UNCHANGED <<reviews, branchIssue>>
            ELSE /\ Goto("p_cl_issue")
                 /\ IF branchIssue = 0
                    THEN /\ reviews' = Append(reviews, "open")
                         /\ branchIssue' = Len(reviews) + 1
                    ELSE UNCHANGED <<reviews, branchIssue>>
    /\ UNCHANGED <<branches, active, head, wt, untracked, staged, locals, frame>>

\* cl_info = self._GetCLInfo(): git cl issue, the two pattern matches, then
\* `if not self._dry_run and not self._no_commit`.
SendsToCQ_ForgetsNoCommit(a) == ~a.dry_run
SendsToCQ(a) == ~a.dry_run /\ ~a.no_commit
PrepareRoll_GetCLInfo ==
    /\ pc = "p_cl_issue"
    /\ \E st \in Outcomes(TRUE, 1) :
         IF RunCommandExits(st, FALSE)
         THEN Ran("git cl issue", st) /\ Exit(st) /\ UNCHANGED cl_info
         ELSE \E shape \in ClShapes :
           LET parsed == ParseCLInfo(GitClIssueOutput(branchIssue, shape))
           IN  IF ~parsed.ok
               THEN Ran("git cl issue", st) /\ Exit(-1) /\ UNCHANGED cl_info
               ELSE /\ log' = log \o <<Event("git cl issue", st), Event("parsed cl info", 0)>>
                    /\ cl_info' = parsed.val
                    /\ IF SendsToCQ(args) THEN Goto("p_set_commit") ELSE Return(0)
    /\ UNCHANGED <<world, deps, res, info, description, active_branch, hadRoll, frame>>

\* git cl set_commit: the review of the branch is sent to the commit queue.
PrepareRoll_SetCommit ==
    /\ pc = "p_set_commit"
    /\ \E st \in Outcomes(branchIssue /= 0, 1) :
         /\ Ran("git cl set_commit", st)
         /\ IF RunCommandExits(st, FALSE) THEN Exit(st) /\ UNCHANGED reviews
            ELSE /\ Goto("p_delete_roll")
                 /\ reviews' = [reviews EXCEPT ![branchIssue] = "commit"]
    /\ UNCHANGED <<branches, active, head, wt, untracked, staged, branchIssue,
                   locals, frame>>

\* _DeleteRollBranch: git checkout master, then
\* git branch -D special_webrtc_roll_branch; PrepareRoll then returns 0.
DeleteRollBranch_BackToStart ==
    /\ pc = "p_delete_roll"
    /\ \E co \in Outcomes(CanCheckout(start.active), 1) :
         IF RunCommandExits(co, FALSE)
         THEN /\ Ran("git checkout master", co)
              /\ Exit(co)
              /\ UNCHANGED <<branches, active, head, wt, branchIssue>>
         ELSE /\ active' = start.active
              /\ wt' = CheckoutTree(start.active)
              /\ \E st \in Outcomes(ROLL_BRANCH_NAME \in branches
                                    /\ ROLL_BRANCH_NAME /= start.active, 1) :
                   /\ log' = log \o <<Event("git checkout master", co),
                                      Event("git branch -D", st)>>
                   /\ IF RunCommandExits(st, FALSE)
                      THEN Exit(st) /\ UNCHANGED <<branches, head, branchIssue>>
                      ELSE /\ Return(0)
                           /\ branches' = branches \ {ROLL_BRANCH_NAME}
                           /\ head' = [head EXCEPT ![ROLL_BRANCH_NAME] = NoTree]
                           /\ branchIssue' = 0
    /\ UNCHANGED <<untracked, staged, reviews, locals, frame>>
DeleteRollBranch ==
    /\ pc = "p_delete_roll"
    /\ \E co \in Outcomes(CanCheckout("master"), 1) :
         IF RunCommandExits(co, FALSE)
         THEN /\ Ran("git checkout master", co)
              /\ Exit(co)
              /\ UNCHANGED <<branches, active, head, wt, branchIssue>>
         ELSE /\ active' = "master"
              /\ wt' = CheckoutTree("master")
              /\ \E st \in Outcomes(ROLL_BRANCH_NAME \in branches
                                    /\ ROLL_BRANCH_NAME /= "master", 1) :
                   /\ log' = log \o <<Event("git checkout master", co),
                                      Event("git branch -D", st)>>
                   /\ IF RunCommandExits(st, FALSE)
                      THEN Exit(st) /\ UNCHANGED <<branches, head, branchIssue>>
                      ELSE /\ Return(0)
                           /\ branches' = branches \ {ROLL_BRANCH_NAME}
                           /\ head' = [head EXCEPT ![ROLL_BRANCH_NAME] = NoTree]
                           /\ branchIssue' = 0
    /\ UNCHANGED <<untracked, staged, reviews, locals, frame>>

(* -------------------------------- Abort ------------------------------- *)
\* _GetBranches: the starred line gives the active branch, every non-empty
\* line a branch.
RECURSIVE ActiveScan(_, _, _)
ActiveScan(lines, i, found) ==
    IF i > Len(lines) THEN found
    ELSE ActiveScan(lines, i + 1, IF lines[i].star THEN lines[i].name ELSE found)
GetBranches(lines) ==
    [active |-> ActiveScan(lines, 1, ""),
     branches |-> {lines[i].name : i \in 1..Len(lines)}]

\* if active_branch == ROLL_BRANCH_NAME: active_branch = 'master'
BranchToReturnTo_AlwaysMaster(name) == "master"
BranchToReturnTo_NoFallback(name) == name
BranchToReturnTo(name) == IF name = ROLL_BRANCH_NAME THEN "master" ELSE name

\* if ROLL_BRANCH_NAME in branches:
RollPending_Untested(names) == TRUE
RollPending(names) == ROLL_BRANCH_NAME \in names

\* active_branch, branches = self._GetBranches(); the two tests of Abort.
Abort_GetBranches ==
    /\ pc = "a_branch"
    /\ \E st \in Outcomes(TRUE, 1) :
         LET got == GetBranches(GitBranchOutput)
         IN  /\ Ran("git branch", st)
             /\ IF RunCommandExits(st, FALSE)
                THEN Exit(st) /\ UNCHANGED <<active_branch, hadRoll>>
                ELSE /\ active_branch' = BranchToReturnTo(got.active)
                     /\ hadRoll' = RollPending(got.branches)
                     /\ IF RollPending(got.branches)
                        THEN Goto("a_checkout_roll") ELSE Return(0)
    /\ UNCHANGED <<world, deps, res, info, description, cl_info, frame>>

\* git checkout special_webrtc_roll_branch
Abort_CheckoutRoll ==
    /\ pc = "a_checkout_roll"
    /\ \E st \in Outcomes(CanCheckout(ROLL_BRANCH_NAME), 1) :
         /\ Ran("git checkout roll", st)
         /\ IF RunCommandExits(st, FALSE) THEN Exit(st) /\ UNCHANGED <<active, wt>>
            ELSE /\ Goto("a_set_close")
                 /\ active' = ROLL_BRANCH_NAME
                 /\ wt' = CheckoutTree(ROLL_BRANCH_NAME)
    /\ UNCHANGED <<branches, head, untracked, staged, reviews, branchIssue,
                   locals, frame>>

\* git cl set_close, ignore_exit_code=True: fails when the branch has no review.
Abort_SetClose ==
    /\ pc = "a_set_close"
    /\ \E st \in Outcomes(branchIssue /= 0, 1) :
         /\ Ran("git cl set_close", st)
         /\ IF RunCommandExits(st, TRUE) THEN Exit(st) /\ UNCHANGED reviews
            ELSE /\ Goto("a_checkout_back")
                 /\ IF st = 0
                    THEN reviews' = [reviews EXCEPT ![branchIssue] = "closed"]
                    ELSE UNCHANGED reviews
    /\ UNCHANGED <<branches, active, head, wt, untracked, staged, branchIssue,
                   locals, frame>>

\* git checkout active_branch
Abort_CheckoutBack ==
    /\ pc = "a_checkout_back"
    /\ \E st \in Outcomes(CanCheckout(active_branch), 1) :
         /\ Ran("git checkout back", st)
         /\ IF RunCommandExits(st, FALSE) THEN Exit(st) /\ UNCHANGED <<active, wt>>
            ELSE /\ Goto("a_delete")
                 /\ active' = active_branch
                 /\ wt' = CheckoutTree(active_branch)
    /\ UNCHANGED <<branches, head, untracked, staged, reviews, branchIssue,
                   locals, frame>>

\* git branch -D special_webrtc_roll_branch and Abort's return 0.
Abort_Delete ==
    /\ pc = "a_delete"
    /\ \E st \in Outcomes(CanDeleteBranch(ROLL_BRANCH_NAME), 1) :
         /\ Ran("git branch -D", st)
         /\ IF RunCommandExits(st, FALSE)
            THEN Exit(st) /\ UNCHANGED <<branches, head, branchIssue>>
            ELSE /\ Return(0)
                 /\ branches' = branches \ {ROLL_BRANCH_NAME}
                 /\ head' = [head EXCEPT ![ROLL_BRANCH_NAME] = NoTree]
                 /\ branchIssue' = 0
    /\ UNCHANGED <<active, wt, untracked, staged, reviews, locals, frame>>

(* --------------------------- between invocations ---------------------- *)
LastCmd == IF log = <<>> THEN "none" ELSE log[Len(log)].cmd
Logged(cmd) == \E i \in 1..Len(log) : log[i].cmd = cmd
\* The process has ended; what is remembered of it is how it ended.
ProcessEnds ==
    /\ pc = "done"
    /\ pc' = "idle"
    /\ prev' = Outcome(args, how,
                       ~args.ignore_checks /\ how = "returned" /\ rc = 0
                       /\ Logged("git fetch origin") /\ ~Logged("git commit"))
    /\ args' = NoArgs /\ how' = "none" /\ rc' = 0 /\ log' = <<>>
    /\ start' = Snapshot
    /\ deps' = <<>> /\ res' = 0 /\ info' = NoInfos
    /\ description' = <<>> /\ cl_info' = NoCLInfo
    /\ active_branch' = "" /\ hadRoll' = FALSE
    /\ UNCHANGED <<world, latest, runNo, other>>

\* Upstream moves on: the tip of a dependency's origin is a newer commit.
UpstreamAdvances ==
    /\ pc = "idle" /\ other.pc = "idle"
    /\ runNo < MaxRuns
    /\ \E p \in DepPaths :
         /\ latest[p] < MaxId
         /\ latest' = [latest EXCEPT ![p] = latest[p] + 1]
    /\ UNCHANGED <<world, locals, run, other>>

\* Between two invocations the user switches to another branch.
UserChecksOut ==
    /\ pc = "idle" /\ other.pc = "idle"
    /\ runNo < MaxRuns
    /\ \E b \in branches \ {active} :
         /\ CanCheckout(b)
         /\ active' = b
         /\ wt' = CheckoutTree(b)
    /\ start' = [start EXCEPT !.active = active', !.wt = wt']
    /\ UNCHANGED <<branches, head, untracked, staged, reviews, branchIssue,
                   latest, locals, pc, args, how, rc, log, runNo, prev, other>>

Next ==
    \/ Main
    \/ PrepareRoll_Checks
    \/ PrepareRoll_CurrentBranch
    \/ PrepareRoll_TreeClean
    \/ PrepareRoll_DeleteStale
    \/ PrepareRoll_Pull
    \/ PrepareRoll_CreateBranch
    \/ GetCommitInfo
    \/ PrepareRoll_RollWebrtc
    \/ PrepareRoll_RollLibjingle
    \/ PrepareRoll_NoOpTest
    \/ PrepareRoll_Add
    \/ PrepareRoll_Commit
    \/ PrepareRoll_Upload
    \/ PrepareRoll_GetCLInfo
    \/ PrepareRoll_SetCommit
    \/ DeleteRollBranch
    \/ Abort_GetBranches
    \/ Abort_CheckoutRoll
    \/ Abort_SetClose
    \/ Abort_CheckoutBack
    \/ Abort_Delete
    \/ ProcessEnds
    \/ UpstreamAdvances
    \/ UserChecksOut

Spec == Init /\ [][Next]_vars

(* ------------------ two invocations on one checkout ------------------ *)
\* Two processes run main() on the same checkout.  Between two commands of
\* the one the other may run its next command: the two exchange places.  An
\* invocation that has ended leaves first (ProcessEnds), and one that has not
\* started does not wait for another that has not started either.
Switch ==
    /\ pc /= "done"
    /\ other.pc /= "idle" \/ pc /= "idle"
    /\ other' = Context
    /\ pc' = other.pc /\ args' = other.args /\ how' = other.how /\ rc' = other.rc
    /\ log' = other.log /\ deps' = other.deps /\ res' = other.res
    /\ info' = other.info /\ description' = other.description
    /\ cl_info' = other.cl_info /\ active_branch' = other.active_branch
    /\ hadRoll' = other.hadRoll /\ start' = other.start
    /\ UNCHANGED <<world, latest, runNo, prev>>
NextInterleaved == Next \/ Switch
SpecInterleaved == Init /\ [][NextInterleaved]_vars

(* ------------------- _GenerateCLDescription on its own ---------------- *)
\* The CommitInfo values _GenerateCLDescription is applied to: any revision
\* with any commit, one commit more than upstream has so that two commits
\* differ in their first seven characters; a current CommitInfo carries the
\* URL of its repository, a latest one carries none.
CommitInfos(url) ==
    {CommitInfo(CommitPosition(r), c, url) : r \in Ids, c \in 1..(MaxId + 1)}
DescriptionInputs ==
    {[webrtc_current |-> wc, libjingle_current |-> lc,
      webrtc_latest |-> wn, libjingle_latest |-> ln] :
        wc \in CommitInfos(<<Piece("url", RepoUrl(WEBRTC_PATH), 0)>>),
        lc \in CommitInfos(<<Piece("url", RepoUrl(LIBJINGLE_PATH), 0)>>),
        wn \in CommitInfos(<<>>), ln \in CommitInfos(<<>>)}
DescriptionInit ==
    /\ branches = {"master", ROLL_BRANCH_NAME}
    /\ active = ROLL_BRANCH_NAME
    /\ head = [b \in AllBranches |->
                 IF b \in branches
                 THEN Tree([p \in DepPaths |-> 1], CommitPosition(1), 0)
                 ELSE NoTree]
    /\ wt = Tree([p \in DepPaths |-> 1], CommitPosition(1), 0)
    /\ untracked = FALSE /\ staged = FALSE
    /\ reviews = <<>> /\ branchIssue = 0
    /\ latest = [p \in DepPaths |-> 1]
    /\ pc = "describe" /\ args = NoArgs /\ how = "running" /\ rc = 0 /\ log = <<>>
    /\ deps = <<>> /\ res = 4
    /\ info \in DescriptionInputs
    /\ description = <<>> /\ cl_info = NoCLInfo
    /\ active_branch = "" /\ hadRoll = FALSE
    /\ start = Snapshot
    /\ runNo = 1
    /\ prev = NoPrev
    /\ other = NotStarted
\* description = _GenerateCLDescription(webrtc_current, libjingle_current,
\*                                      webrtc_latest, libjingle_latest)
GenerateDescription ==
    /\ pc = "describe"
    /\ description' = GenerateCLDescription(
           info["webrtc_current"], info["libjingle_current"],
           info["webrtc_latest"], info["libjingle_latest"])
    /\ Ran("generate description", 0)
    /\ pc' = "described"
    /\ UNCHANGED <<world, latest, deps, res, info, cl_info, active_branch, hadRoll,
                   args, how, rc, start, runNo, prev, other>>
SpecDescription == DescriptionInit /\ [][GenerateDescription]_vars

(* ====================== properties of the invocations ================= *)
Done == pc = "done"
Entered == args.platform_ok /\ args.checkout_ok
RollRun == pc /= "idle" /\ Entered /\ ~args.abort
AbortRun == pc /= "idle" /\ Entered /\ args.abort
Returned == Done /\ how = "returned"
Count(cmd) == Cardinality({i \in 1..Len(log) : log[i].cmd = cmd})
Cmds == [i \in 1..Len(log) |-> log[i].cmd]
Before(c1, c2) ==
    \E i, j \in 1..Len(log) : i < j /\ log[i].cmd = c1 /\ log[j].cmd = c2
RollExists == ROLL_BRANCH_NAME \in branches
Succeeded(cmd) == \E i \in 1..Len(log) : log[i] = Event(cmd, 0)
StartedCleanOnMaster ==
    /\ start.active = "master"
    /\ start.wt = start.head["master"]
    /\ ~start.untracked
\* The pin of a dependency in the DEPS file the run read differs from the tip.
Behind(p) == start.wt.deps[p] /= latest[p]
CheckoutUntouched ==
    /\ branches = start.branches /\ active = start.active /\ head = start.head
    /\ wt = start.wt /\ untracked = start.untracked /\ staged = start.staged
ReviewsUntouched ==
    reviews = start.reviews /\ branchIssue = start.branchIssue

\* C1: a PrepareRoll with the checks, started on master with a clean tree,
\* that no command makes exit, with both pins already at the upstream tips,
\* returns 0, has run neither the commit nor the upload, and leaves no roll
\* branch; this holds of every run, so also of a second one.
C1_NoOpRollLeavesNoBranch ==
    (/\ RollRun /\ ~args.ignore_checks /\ StartedCleanOnMaster
     /\ \A p \in DepPaths : ~Behind(p))
    => /\ ~Logged("git commit") /\ ~Logged("git cl upload")
       /\ ~Logged("generate description")
       /\ Returned => (rc = 0 /\ ~RollExists /\ active = "master"
                       /\ Logged("roll-dep libjingle"))
C1_SecondNoOpRoll ==
    /\ RollRun /\ ~args.ignore_checks /\ StartedCleanOnMaster
    /\ \A p \in DepPaths : ~Behind(p)
    /\ Returned /\ rc = 0 /\ ~RollExists
    /\ runNo = 2 /\ prev.noop

\* C2: in a PrepareRoll in which neither dependency changed (the current and
\* the latest commit are the same for both), whatever the flags and the
\* working tree, the description is not generated and neither the commit nor
\* the upload is run.
Resolved == \A i \in 1..4 : info[ResolutionOrder[i]] /= NoInfo
NeitherChanged ==
    /\ Resolved
    /\ info["webrtc_current"].git_commit = info["webrtc_latest"].git_commit
    /\ info["libjingle_current"].git_commit = info["libjingle_latest"].git_commit
C2_UnchangedNeverDescribed ==
    (RollRun /\ NeitherChanged)
    => /\ ~Logged("generate description")
       /\ ~Logged("git commit")
       /\ ~Logged("git cl upload")

\* C3: a PrepareRoll with --dry-run or --no-commit, with a dependency behind,
\* that returns: the commit and the upload each ran once, the review was never
\* sent to the commit queue, _DeleteRollBranch never ran, and it returns 0
\* with the roll branch present and active.
C3_DryRunKeepsBranch ==
    (/\ RollRun /\ (args.dry_run \/ args.no_commit)
     /\ \E p \in DepPaths : Behind(p))
    => /\ ~Logged("git cl set_commit")
       /\ Succeeded("git checkout -b") =>
            (~Logged("git checkout master") /\ ~Logged("git branch -D")
             /\ RollExists /\ active = ROLL_BRANCH_NAME)
       /\ (Returned /\ Succeeded("git checkout -b")) =>
            (/\ Count("git commit") = 1 /\ Count("git cl upload") = 1
             /\ Before("git commit", "git cl upload")
             /\ rc = 0
             /\ \A i \in 1..Len(reviews) : reviews[i] /= "commit" \/
                    (i <= Len(start.reviews) /\ start.reviews[i] = "commit"))
C3_DryRunDone ==
    /\ RollRun /\ args.dry_run /\ ~args.no_commit
    /\ \E p \in DepPaths : Behind(p)
    /\ Returned /\ rc = 0 /\ Logged("git cl upload")
    /\ RollExists /\ active = ROLL_BRANCH_NAME

\* C4: a PrepareRoll with neither --dry-run nor --no-commit, with a dependency
\* behind, that no command makes exit: commit, upload, query of the review,
\* its parse, request to the commit queue, checkout of master and deletion of
\* the roll branch run once each in this order, and the roll branch is gone;
\* and in any run the request to the commit queue comes only after the review
\* information was parsed out of the reply.
TailEvents ==
    <<"git commit", "git cl upload", "git cl issue", "parsed cl info",
      "git cl set_commit", "git checkout master", "git branch -D">>
C4_CommitUploadQueueDelete ==
    /\ (/\ RollRun /\ SendsToCQ(args) /\ Returned /\ Succeeded("git checkout -b")
        /\ \E p \in DepPaths : Behind(p))
       => /\ Len(log) >= 7
          /\ SubSeq(Cmds, Len(log) - 6, Len(log)) = TailEvents
          /\ \A i \in 1..7 : Count(TailEvents[i]) = 1
          /\ ~RollExists
          /\ rc = 0
    /\ Logged("git cl set_commit")
       => /\ Before("parsed cl info", "git cl set_commit")
          /\ Before("git cl upload", "git cl issue")
          /\ cl_info.issue >= 0 /\ cl_info.rietveld_server /= <<>>
C4_RollSentToCQ ==
    /\ RollRun /\ SendsToCQ(args) /\ Returned /\ rc = 0
    /\ Behind(WEBRTC_PATH) /\ ~Behind(LIBJINGLE_PATH)
    /\ Logged("git cl set_commit") /\ ~RollExists
    /\ Len(reviews) > 0 /\ reviews[Len(reviews)] = "commit"

\* C5: an Abort that returns leaves no roll branch; an Abort on a checkout
\* without the roll branch runs only the listing of the branches, changes
\* nothing in the checkout, closes no review and returns 0; so does an Abort
\* that follows an Abort that returned.
AfterAbort == prev.kind = "abort" /\ prev.how = "returned"
C5_AbortIdempotent ==
    /\ (AbortRun /\ Returned) => (rc = 0 /\ ~RollExists)
    /\ (pc = "idle" /\ AfterAbort) => ~RollExists
    /\ (AbortRun /\ (AfterAbort \/ ROLL_BRANCH_NAME \notin start.branches))
       => /\ CheckoutUntouched /\ ReviewsUntouched
          /\ \A i \in 1..Len(log) : log[i].cmd = "git branch"
          /\ Len(log) <= 1
          /\ Returned => (rc = 0 /\ log = <<Event("git branch", 0)>>)
C5_SecondAbort ==
    /\ AbortRun /\ AfterAbort /\ Returned /\ rc = 0
    /\ log = <<Event("git branch", 0)>>

\* C6: an Abort on a checkout with the roll branch that returns has run, in
\* this order, the checkout of the roll branch, the close of its review, the
\* checkout of the branch that was active at its start (master when that was
\* the roll branch) and the deletion of the roll branch; the roll branch is
\* gone and that branch is active; a failing close does not end the run.
AbortCommands ==
    <<"git branch", "git checkout roll", "git cl set_close", "git checkout back",
      "git branch -D">>
C6_AbortOrder ==
    /\ (AbortRun /\ ROLL_BRANCH_NAME \in start.branches /\ Returned)
       => /\ Cmds = AbortCommands
          /\ \A i \in {1, 2, 4, 5} : log[i].status = 0
          /\ ~RollExists
          /\ active = IF start.active = ROLL_BRANCH_NAME THEN "master"
                      ELSE start.active
          /\ rc = 0
    /\ (AbortRun /\ ROLL_BRANCH_NAME \in start.branches)
       => /\ Cmds = SubSeq(AbortCommands, 1, Len(log))
          /\ ~(Done /\ LastCmd = "git cl set_close")
          /\ ~Logged("git branch -D") => RollExists
C6_AbortFromFeatureUnclosed ==
    /\ AbortRun /\ Returned /\ ~RollExists
    /\ start.active = "feature" /\ active = "feature"
    /\ ROLL_BRANCH_NAME \in start.branches
    /\ Len(log) = 5 /\ log[3] = Event("git cl set_close", 1)

\* C7: a run on a path that is no checkout ends with -2 and has run nothing;
\* a PrepareRoll with the checks that starts off master or on a tree that is
\* not clean runs nothing but the two queries, changes nothing in the
\* checkout and, when it returns, returns -1.
C7_PreconditionFailureMutatesNothing ==
    /\ (pc /= "idle" /\ ~args.checkout_ok /\ args.platform_ok)
       => /\ Returned /\ rc = -2 /\ log = <<>>
          /\ CheckoutUntouched /\ ReviewsUntouched
    /\ (RollRun /\ ~args.ignore_checks /\ ~StartedCleanOnMaster)
       => /\ \A i \in 1..Len(log) : log[i].cmd \in {"git rev-parse", "git status"}
          /\ CheckoutUntouched /\ ReviewsUntouched
          /\ Returned => rc = -1
          /\ pc \in {"p_checks", "p_rev_parse", "p_status", "done"}
C7_DirtyTreeRejected ==
    /\ RollRun /\ ~args.ignore_checks /\ Returned /\ rc = -1
    /\ start.active = "master" /\ start.untracked
    /\ Cmds = <<"git rev-parse", "git status">>

\* C8: a PrepareRoll that a parse failure ends (exit status -1) leaves no roll
\* branch, leaves the branch active that was active at its start, and has
\* rewritten no pin.
ParseFailure == RollRun /\ Done /\ how = "exited" /\ rc = -1
C8_ParseFailureLeavesNothing ==
    ParseFailure
    => /\ ~RollExists
       /\ active = start.active
       /\ wt.deps = start.wt.deps

\* C9: an Abort that returns, run on what a PrepareRoll left behind with the
\* roll branch present, ends without the roll branch and on another branch;
\* and git refuses none of the commands of such an Abort.
AfterRollLeftBranch == prev.kind = "roll" /\ ROLL_BRANCH_NAME \in start.branches
C9_AbortRecovers ==
    (AbortRun /\ AfterRollLeftBranch)
    => /\ Returned => (~RollExists /\ active /= ROLL_BRANCH_NAME
                       /\ active \in branches)
       /\ pc = "a_checkout_roll" => CanCheckout(ROLL_BRANCH_NAME)
       /\ pc = "a_checkout_back" => CanCheckout(active_branch)
       /\ pc = "a_delete" => CanDeleteBranch(ROLL_BRANCH_NAME)
C9_AbortAfterFailedRoll ==
    /\ AbortRun /\ AfterRollLeftBranch /\ Returned
    /\ prev.how = "exited"
    /\ start.active = ROLL_BRANCH_NAME
    /\ start.wt.deps /= start.head[ROLL_BRANCH_NAME].deps
    /\ ~RollExists /\ active = "master"

\* C10: a command that ends with a non-zero status is the last command of the
\* run, which exits with that status, unless it is the deletion of the stale
\* roll branch at the start of PrepareRoll or the close of the review in
\* Abort; after a failure of one of these two the run goes on; no command is
\* run again after it failed.
Tolerated == {"git branch -D (stale)", "git cl set_close"}
C10_FailureIsFatalButTwo ==
    /\ \A i \in 1..Len(log) :
         (log[i].status /= 0 /\ log[i].cmd \notin Tolerated)
         => (i = Len(log) /\ Done /\ how = "exited" /\ rc = log[i].status)
    /\ (Done /\ how = "exited" /\ rc /= -1)
       => (log /= <<>> /\ log[Len(log)].status = rc /\ rc /= 0
           /\ LastCmd \notin Tolerated)
    /\ \A i \in 1..Len(log) :
         (log[i].status /= 0 /\ log[i].cmd \in Tolerated)
         => (i < Len(log) \/ pc \in {"p_pull", "p_checkout_b", "a_checkout_back"})
C10_ToleratedFailureGoesOn ==
    /\ RollRun /\ Returned /\ rc = 0
    /\ log[1] = Event("git branch -D (stale)", 1)
    /\ Succeeded("git checkout -b")
    /\ prev.kind = "roll" /\ prev.how = "exited"

\* C11: a PrepareRoll with --ignore-checks runs neither the query of the
\* active branch, nor the query of the tree before the branch is created, nor
\* the pull: its first command is the deletion of the stale roll branch and
\* its second the creation of the roll branch; a PrepareRoll without the flag
\* starts with the two queries, then the deletion of the stale roll branch,
\* then the pull, then the creation of the roll branch.
CheckedStart ==
    <<"git rev-parse", "git status", "git branch -D (stale)", "git pull",
      "git checkout -b">>
UncheckedStart == <<"git branch -D (stale)", "git checkout -b">>
StartsWith(cmds) ==
    LET n == IF Len(log) < Len(cmds) THEN Len(log) ELSE Len(cmds)
    IN  SubSeq(Cmds, 1, n) = SubSeq(cmds, 1, n)
C11_IgnoreChecksSkipsThree ==
    /\ (RollRun /\ args.ignore_checks)
       => /\ StartsWith(UncheckedStart)
          /\ ~Logged("git rev-parse") /\ ~Logged("git pull")
          /\ pc \notin {"p_checks", "p_delete_stale", "p_checkout_b", "done"}
             => (Len(log) >= 2 /\ log[2].status = 0)
    /\ (RollRun /\ ~args.ignore_checks)
       => /\ StartsWith(CheckedStart)
          /\ (StartedCleanOnMaster /\ pc \notin {"p_checks", "p_rev_parse", "p_status",
                                                 "p_delete_stale", "p_pull",
                                                 "p_checkout_b", "done"})
             => (Len(log) >= 5 /\ log[4].status = 0 /\ log[5].status = 0)
C11_IgnoreChecksRecreates ==
    /\ RollRun /\ args.ignore_checks
    /\ ROLL_BRANCH_NAME \in start.branches /\ start.active = "feature"
    /\ ~start.untracked
    /\ Len(log) >= 2
    /\ log[1] = Event("git branch -D (stale)", 0)
    /\ log[2] = Event("git checkout -b", 0)

\* C12: in a generated description a dependency has a section exactly when
\* the git_commit of its current and of its latest CommitInfo differ; a section
\* is the line '<name> <current revision>:<latest revision>' followed by the
\* change-log line whose URL is the repository URL of the current CommitInfo,
\* '/+log/', and the first seven characters of the two commits; and the last
\* line of every description is 'TBR='.
DescribedPair(name) ==
    IF name = "WebRTC"
    THEN [cur |-> info["webrtc_current"], new |-> info["webrtc_latest"]]
    ELSE [cur |-> info["libjingle_current"], new |-> info["libjingle_latest"]]
SectionsOf(name) ==
    {i \in 1..Len(description) :
        description[i].kind = "section" /\ description[i].name = name}
C12_DescriptionSections ==
    Logged("generate description")
    => /\ description /= <<>>
       /\ description[Len(description)] = DLine("TBR=", "", 0, 0, NoUrl)
       /\ \A i \in 1..Len(description) :
            description[i].kind = "section" => description[i].name \in {"WebRTC", "Libjingle"}
       /\ \A name \in {"WebRTC", "Libjingle"} :
            LET p == DescribedPair(name)
            IN  /\ (SectionsOf(name) /= {}) <=> (p.cur.git_commit /= p.new.git_commit)
                /\ Cardinality(SectionsOf(name)) <= 1
                /\ \A i \in SectionsOf(name) :
                     /\ description[i].old = p.cur.svn_revision
                     /\ description[i].new = p.new.svn_revision
                     /\ i < Len(description)
                     /\ description[i + 1].kind = "changes"
                     /\ description[i + 1].url.repo = p.cur.git_repo_url
                     /\ description[i + 1].url.from = First7(p.cur.git_commit)
                     /\ description[i + 1].url.to = First7(p.new.git_commit)
C12_OnlyLibjingleDescribed ==
    /\ Logged("generate description")
    /\ info["webrtc_current"].git_commit = info["webrtc_latest"].git_commit
    /\ info["webrtc_current"].svn_revision /= info["webrtc_latest"].svn_revision
    /\ info["libjingle_current"].git_commit = 1
    /\ info["libjingle_latest"].git_commit = 3
    /\ Len(description) = 4
    /\ description[2].kind = "section" /\ description[2].name = "Libjingle"
    /\ description[3].url.from /= description[3].url.to

\* C13: every CommitInfo a PrepareRoll holds carries the commit that was asked
\* for (the pin of DEPS for a current one, the upstream tip for a latest one)
\* and the revision recorded in the message of that commit, never a default;
\* a run that a failed parse of the `git log` reply ends has exit status -1,
\* holds no CommitInfo for the resolution in progress nor for a later one and
\* has rewritten no pin; and a pin that differs from the DEPS the run read,
\* while the run is on the roll branch, is the git_commit of the latest
\* CommitInfo of that dependency.
Asked(i) ==
    IF i <= 2 THEN start.wt.deps[ResolutionPath(i)] ELSE latest[ResolutionPath(i)]
C13_NoDefaultedCommitInfo ==
    RollRun
    => /\ \A i \in 1..4 :
            LET ci == info[ResolutionOrder[i]]
            IN  /\ i < res => ci /= NoInfo
                /\ i > res => ci = NoInfo
                /\ ci /= NoInfo
                   => /\ ci.git_commit \in Ids
                      /\ ci.git_commit = Asked(i)
                      /\ ci.svn_revision = CommitPosition(ci.git_commit)
       /\ (Done /\ LastCmd = "git log" /\ log[Len(log)].status = 0)
          => /\ how = "exited" /\ rc = -1
             /\ \A i \in res..4 : info[ResolutionOrder[i]] = NoInfo
             /\ wt.deps = start.wt.deps
       /\ \A i \in {3, 4} :
            (/\ wt.deps[ResolutionPath(i)] /= start.wt.deps[ResolutionPath(i)]
             /\ ~Logged("git checkout master"))
            => /\ info[ResolutionOrder[i]] /= NoInfo
               /\ wt.deps[ResolutionPath(i)] = info[ResolutionOrder[i]].git_commit
C13_LatestWebrtcUnparsed ==
    /\ RollRun /\ Done /\ how = "exited" /\ rc = -1
    /\ LastCmd = "git log" /\ log[Len(log)].status = 0
    /\ res = 3
    /\ info["libjingle_current"] /= NoInfo
    /\ info["webrtc_latest"] = NoInfo
    /\ Behind(WEBRTC_PATH)
    /\ wt.deps = start.wt.deps

\* C14: a PrepareRoll that created the roll branch never ends with the roll
\* branch present and only the first of the two pins rewritten, nor with the
\* roll branch present and a rewritten pin in the working tree that is not
\* committed on the roll branch.
C14_NoPartialCommit ==
    (RollRun /\ Done /\ Succeeded("git checkout -b") /\ RollExists)
    => /\ Succeeded("roll-dep webrtc") => Succeeded("roll-dep libjingle")
       /\ Succeeded("roll-dep webrtc") => wt.deps = head[ROLL_BRANCH_NAME].deps

\* C15: in a PrepareRoll in which the creation of the roll branch succeeded,
\* a roll branch that existed at the start was deleted by the run before; the
\* run did not start on the roll branch; until the run commits, the roll
\* branch holds the tree of the branch the run started on, which is not what
\* an earlier roll committed, and has no review.
C15_FreshRollBranch ==
    (RollRun /\ Succeeded("git checkout -b"))
    => /\ ROLL_BRANCH_NAME \in start.branches
            => Before("git branch -D (stale)", "git checkout -b")
               /\ Succeeded("git branch -D (stale)")
       /\ start.active /= ROLL_BRANCH_NAME
       /\ (~Logged("git commit") /\ RollExists)
          => /\ head[ROLL_BRANCH_NAME] = start.head[start.active]
             /\ head[start.active] = start.head[start.active]
             /\ branchIssue = 0
C15_StaleSessionReplaced ==
    /\ RollRun /\ Succeeded("git checkout -b")
    /\ ROLL_BRANCH_NAME \in start.branches
    /\ start.active = "master"
    /\ start.head[ROLL_BRANCH_NAME] /= start.head["master"]
    /\ start.branchIssue /= 0
    /\ pc = "p_resolve"
    /\ head[ROLL_BRANCH_NAME] = start.head["master"]

\* C16: the resolutions of a PrepareRoll complete in the order current WebRTC,
\* current libjingle, latest WebRTC, latest libjingle, each once; roll-dep of
\* WebRTC is run once, after all four have completed; roll-dep of libjingle is
\* run once, after roll-dep of WebRTC succeeded; no pin is rewritten before;
\* and each current CommitInfo carries the repository of its own dependency.
ResolveAndRewrite ==
    <<"webrtc_current", "libjingle_current", "webrtc_latest", "libjingle_latest",
      "roll-dep webrtc", "roll-dep libjingle">>
ResolveAndRewriteNames ==
    {"webrtc_current", "libjingle_current", "webrtc_latest", "libjingle_latest",
     "roll-dep webrtc", "roll-dep libjingle"}
ResolveAndRewriteEvents ==
    SelectSeq(log, LAMBDA e : e.cmd \in ResolveAndRewriteNames)
C16_ResolutionThenRewrite ==
    RollRun
    => LET done == ResolveAndRewriteEvents
       IN  /\ Len(done) <= 6
           /\ \A i \in 1..Len(done) :
                /\ done[i].cmd = ResolveAndRewrite[i]
                /\ i < Len(done) => done[i].status = 0
           /\ Len(done) < 5 => wt.deps = start.wt.deps
           /\ (Len(done) < 6 /\ active = ROLL_BRANCH_NAME)
              => wt.deps[LIBJINGLE_PATH] = start.wt.deps[LIBJINGLE_PATH]
           /\ info["webrtc_current"] /= NoInfo
              => info["webrtc_current"].git_repo_url
                   = <<Piece("url", RepoUrl(WEBRTC_PATH), 0)>>
           /\ info["libjingle_current"] /= NoInfo
              => info["libjingle_current"].git_repo_url
                   = <<Piece("url", RepoUrl(LIBJINGLE_PATH), 0)>>
C16_BothRewritten ==
    /\ RollRun /\ pc = "p_status_after"
    /\ Succeeded("roll-dep webrtc") /\ Succeeded("roll-dep libjingle")
    /\ wt.deps[WEBRTC_PATH] /= start.wt.deps[WEBRTC_PATH]
    /\ wt.deps[LIBJINGLE_PATH] /= start.wt.deps[LIBJINGLE_PATH]

\* C17 (as claimed): once a PrepareRoll has tested the working tree after the
\* two roll-dep commands, the README of libjingle has been updated before
\* that test.
TreeTestedAt ==
    {i \in 2..Len(log) :
        log[i] = Event("git status", 0) /\ log[i - 1].cmd = "roll-dep libjingle"}
C17_ReadmeUpdatedBeforeTreeTest ==
    RollRun
    => \A i \in TreeTestedAt : \E j \in 1..(i - 1) : log[j].cmd = "update readme"

\* C17 (amended): a PrepareRoll updates the README of libjingle only right
\* after the test of the working tree that follows the two roll-dep commands,
\* and only when that test found the tree changed, before `git add`; the tree
\* that is tested holds the README the run started with; a run that found the
\* tree clean never updates the README.
C17_ReadmeAfterTreeTest ==
    RollRun
    => /\ \A i \in 1..Len(log) :
            log[i].cmd = "update readme"
            => /\ (i - 1) \in TreeTestedAt
               /\ i + 2 <= Len(log) => log[i + 2].cmd = "git add"
       /\ pc = "p_status_after" => wt.readme = start.wt.readme
       /\ pc = "p_add"
          => /\ Logged("update readme")
             /\ wt.readme = info["libjingle_latest"].svn_revision
       /\ pc = "p_delete_roll" /\ ~Logged("git commit")
          => /\ TreeTestedAt /= {}
             /\ ~Logged("update readme")
             /\ wt.readme = start.wt.readme
C17_ReadmeUpdatedAfterTest ==
    /\ RollRun /\ pc = "p_add"
    /\ Behind(LIBJINGLE_PATH)
    /\ TreeTestedAt /= {}
    /\ Logged("update readme")
    /\ wt.readme /= start.wt.readme

\* C18: when two invocations run on the same checkout, an invocation of
\* PrepareRoll whose next command is a roll-dep or the commit finds the roll
\* branch present and checked out.
AboutToRewriteOrCommit ==
    /\ Entered /\ ~args.abort
    /\ pc \in {"p_roll_dep_webrtc", "p_roll_dep_libjingle", "p_commit"}
C18_RewritesOnOwnBranch ==
    AboutToRewriteOrCommit => (RollExists /\ active = ROLL_BRANCH_NAME)

\* C19: a PrepareRoll never runs `git cl set_close` and leaves every review
\* that existed at its start as it was, also the review of a stale roll branch
\* it deletes; `git cl set_close` is run by Abort only, and a review becomes
\* closed in an Abort only.
C19_PrepareRollClosesNoReview ==
    /\ RollRun
       => /\ ~Logged("git cl set_close")
          /\ Len(reviews) >= Len(start.reviews)
          /\ \A i \in 1..Len(start.reviews) : reviews[i] = start.reviews[i]
    /\ Logged("git cl set_close") => AbortRun
    /\ (pc /= "idle" /\ reviews /= start.reviews /\ ~AbortRun)
       => \A i \in 1..Len(reviews) : reviews[i] /= "closed" \/
              (i <= Len(start.reviews) /\ start.reviews[i] = "closed")
C19_StaleReviewLeftOpen ==
    /\ RollRun /\ Returned /\ rc = 0
    /\ Succeeded("git branch -D (stale)")
    /\ start.branchIssue /= 0
    /\ start.reviews[start.branchIssue] = "open"
    /\ reviews[start.branchIssue] = "open"
    /\ Len(reviews) > Len(start.reviews)
    /\ branchIssue /= start.branchIssue

\* C20: in a PrepareRoll the deletion of the roll branch by _DeleteRollBranch
\* comes right after a successful checkout of master, which itself follows
\* either the test that found the tree clean or the request to the commit
\* queue; from that checkout on master is the active branch, whatever branch
\* the run started on; a run that returns after it has deleted the roll
\* branch; and a failure of the checkout or of the deletion ends the run
\* with the status of the command.
C20_DeleteRollBranchEndsOnMaster ==
    RollRun
    => /\ \A i \in 1..Len(log) :
            /\ log[i].cmd = "git branch -D"
               => (i > 1 /\ log[i - 1] = Event("git checkout master", 0))
            /\ log[i].cmd = "git checkout master"
               => /\ i > 1
                  /\ log[i - 1] \in {Event("git status", 0), Event("git cl set_commit", 0)}
            /\ (log[i].cmd \in {"git checkout master", "git branch -D"}
                /\ log[i].status /= 0)
               => (i = Len(log) /\ Done /\ how = "exited" /\ rc = log[i].status)
       /\ Succeeded("git checkout master") => active = "master"
       /\ (Returned /\ Logged("git checkout master"))
          => (rc = 0 /\ Succeeded("git branch -D") /\ ~RollExists)
       /\ (Returned /\ (SendsToCQ(args) \/ ~Logged("git commit"))
           /\ Succeeded("git checkout -b"))
          => Succeeded("git branch -D")
C20_StartBranchNotRestored ==
    /\ RollRun /\ args.ignore_checks /\ Returned /\ rc = 0
    /\ start.active = "feature"
    /\ Succeeded("git cl set_commit")
    /\ Succeeded("git branch -D")
    /\ active = "master" /\ ~RollExists

====
